---- MODULE Spec2Model ----
(***************************************************************************)
(* Model of src/filters/filters.go: the filter store (Add, Delete, Modify, *)
(* List), the background refresh task (updateFilters) and the replacement  *)
(* of filter files (applyUpdate).                                          *)
(*                                                                         *)
(* Time is counted in clock seconds.  A filter file is the sequence of its *)
(* bytes, each byte a one-character string.                                *)
(***************************************************************************)
EXTENDS Integers, Sequences, FiniteSets, TLC

\* ------------------------------------------------------------- bounds
\* The clock reads StartTime when Start() is called and stops at MaxNow.
StartTime == 3
MaxNow == 4
\* Clock seconds in one hour (scaled down).
TicksPerHour == 1
\* conf.UpdateIntervalHours is drawn from 0..MaxIntervalHours.
MaxIntervalHours == 1
\* Number of handlers registered with AddUser before Start().
NumUsers == 2
\* Number of public calls (Add, Delete, Modify, List) made in a run.
MaxCalls == 2

\* ------------------------------------------------------------- inputs
Names == {"", "ads"}
URLs == {"u1", "u2"}
FilterDir == "dir"

Body2Rules == <<"#", "c", "\n", "r", "\n", "\n", "r", "\n">>
Body1Rule == <<"!", "x", "\n", "r", "#">>
Bodies == {Body2Rules, Body1Rule}

\* ------------------------------------------------------------- data
NoFile == <<"ENOENT">>
NoPath == <<>>

EventBeforeUpdate == 0
EventAfterUpdate == 1

StatusNotFound == 1
StatusChangedEnabled == 2
StatusChangedURL == 4

\* The zero value of Filter; time.Time{} is 0, before every clock reading.
ZeroFilter ==
    [ID |-> 0, Enabled |-> FALSE, Name |-> "", URL |-> "", Path |-> NoPath,
     RuleCount |-> 0, LastUpdated |-> 0, newID |-> 0, nextUpdate |-> 0]

VARIABLES
    Proxylist,       \* fs.conf.Proxylist
    filtersUpdated,  \* fs.filtersUpdated
    interval,        \* fs.conf.UpdateIntervalHours
    files,           \* the files of conf.FilterDir, by path
    now,             \* the clock, in seconds
    confLock,        \* holder of fs.confLock: "free", "caller" or "sched"
    pc,              \* position of the updateFilters goroutine
    uf,              \* updateFilters' local copy of the filter being updated
    idx,             \* applyUpdate's loop index / NotifyUsers' loop index
    events,          \* what the current applyUpdate run has done so far
    cpc,             \* position of the calling goroutine: "idle" or "adding"
    nf,              \* Add's argument while Add runs
    call,            \* the public call that returned in the last step, if one did
    ret,             \* what that call returned
    calls,           \* number of public calls made so far
    fetched          \* by url, the bytes of the last successful scheduled download

vars == <<Proxylist, filtersUpdated, interval, files, now, confLock, pc, uf,
          idx, events, cpc, nf, call, ret, calls,
          fetched>>

\* ------------------------------------------------------------- helpers
filterPath(f) == <<FilterDir, f.ID, "txt">>

AllPaths == {<<FilterDir, i, "txt">> : i \in 0..(MaxNow + 1)}

nextFilterID == now

IntervalDuration == interval * TicksPerHour

\* strings.IndexByte: index of the first c in data, 0 when there is none.
IndexByte(data, c) ==
    IF \E i \in 1..Len(data) : data[i] = c
    THEN CHOOSE i \in 1..Len(data) :
             data[i] = c /\ \A j \in 1..(i - 1) : data[j] # c
    ELSE 0

\* util.SplitNext: the chunk before the first splitBy, and what follows it.
SplitNext(data, splitBy) ==
    LET i == IndexByte(data, splitBy) IN
    IF i # 0
    THEN [line |-> SubSeq(data, 1, i - 1), rest |-> SubSeq(data, i + 1, Len(data))]
    ELSE [line |-> data, rest |-> <<>>]

IsRuleLine_NoBang(line) ==
    ~(Len(line) = 0 \/ line[1] = "#")

\* The condition of parseFilter's loop body: the line is counted.
IsRuleLine(line) ==
    ~(Len(line) = 0 \/ line[1] = "#" \/ line[1] = "!")

RECURSIVE CountRules(_, _)
CountRules(data, rulesCount) ==
    IF Len(data) = 0
    THEN rulesCount
    ELSE LET s == SplitNext(data, "\n") IN
         CountRules(s.rest, IF IsRuleLine(s.line) THEN rulesCount + 1 ELSE rulesCount)

parseFilter(f, body) == [f EXCEPT !.RuleCount = CountRules(body, 0)]


\* ------------------------------------------------------------- Start()
\* What Start() makes of a configured filter whose file holds body and was
\* last written at mtime: LastUpdated, nextUpdate and the rule count.
StartFilter(f, body, mtime) ==
    parseFilter([f EXCEPT !.LastUpdated = mtime,
                          !.nextUpdate = mtime + IntervalDuration], body)

\* A filter of the configuration file: only id, enabled, name and url are stored.
ConfFilter(id, enabled, name, url) ==
    [ZeroFilter EXCEPT !.ID = id, !.Enabled = enabled, !.Name = name, !.URL = url]

\* The configurations the module is started with: one filter or two; the
\* file of filter id was written at second id.
InitConfs ==
    {<<ConfFilter(1, TRUE, "ads", "u1")>>}
    \cup {<<ConfFilter(1, TRUE, "ads", "u1"), ConfFilter(2, e, "", "u2")>> : e \in BOOLEAN}

InitFiles(conf) ==
    [p \in AllPaths |->
        IF \E i \in 1..Len(conf) : filterPath(conf[i]) = p
        THEN Body1Rule
        ELSE NoFile]

NoCall == [op |-> "none", url |-> "", enabled |-> FALSE, name |-> "", newURL |-> ""]
NoRet == [err |-> FALSE, status |-> 0, isNil |-> TRUE, found |-> ZeroFilter,
          body |-> <<>>]

Init ==
    /\ interval \in 0..MaxIntervalHours
    /\ \E conf \in InitConfs :
          /\ files = InitFiles(conf)
          /\ Proxylist = [i \in 1..Len(conf) |->
                             StartFilter(conf[i], files[filterPath(conf[i])], conf[i].ID)]
    /\ filtersUpdated = FALSE
    /\ now = StartTime
    /\ confLock = "free"
    /\ pc = "scan"
    /\ uf = ZeroFilter
    /\ idx = 0
    /\ events = <<>>
    /\ cpc = "idle"
    /\ nf = ZeroFilter
    /\ call = NoCall
    /\ ret = NoRet
    /\ calls = 0
    /\ fetched = [u \in URLs |-> NoFile]

\* The step is not the return of a public call.
NoReturn == call' = NoCall /\ ret' = NoRet /\ calls' = calls

\* An unrecovered panic of any goroutine ends the process.
Running == pc # "panicked"

\* A caller enters a public operation and takes fs.confLock.
CallStart ==
    /\ Running
    /\ cpc = "idle"
    /\ confLock = "free"
    /\ calls < MaxCalls
    /\ calls' = calls + 1

Tick ==
    /\ Running
    /\ now < MaxNow
    /\ now' = now + 1
    /\ NoReturn
    /\ UNCHANGED <<Proxylist, filtersUpdated, interval, files, confLock, pc, uf,
                   idx, events, cpc, nf,
                   fetched>>

\* ------------------------------------------------------------- downloadFilter
\* The outcomes of downloadFilter: an error (of download() or of
\* file.SafeWrite, the file of the filter is not touched), or body is stored.
Outcomes ==
    {[ok |-> FALSE, body |-> <<>>]} \cup {[ok |-> TRUE, body |-> b] : b \in Bodies}

\* The filter as downloadFilter leaves it on success.
downloadedFilter(f, body) ==
    [parseFilter(f, body) EXCEPT !.LastUpdated = now]

\* The directory after downloadFilter(f) with outcome o.
downloadedFiles(f, o) ==
    IF o.ok THEN [files EXCEPT ![filterPath(f)] = o.body] ELSE files

\* ------------------------------------------------------------- List
List ==
    [i \in 1..Len(Proxylist) |-> ZeroFilter]
    \o [i \in 1..Len(Proxylist) |->
           [Proxylist[i] EXCEPT !.Path = filterPath(Proxylist[i])]]

ListCall ==
    /\ CallStart
    /\ call' = [NoCall EXCEPT !.op = "List"]
    /\ ret' = NoRet
    /\ UNCHANGED <<Proxylist, filtersUpdated, interval, files, now, confLock, pc,
                   uf, idx, events, cpc, nf,
                   fetched>>

\* ------------------------------------------------------------- Add
AddCollides_NameOnly(list, f) ==
    \E i \in 1..Len(list) : list[i].Name = f.Name

\* The loop of Add: some filter has the name or the url of f.
AddCollides(list, f) ==
    \E i \in 1..Len(list) : list[i].Name = f.Name \/ list[i].URL = f.URL

AddResult_AppendFirst(list, f, ok) ==
    Append(list, f)

\* The list after Add: f is appended only when downloadFilter succeeded.
AddResult(list, f, ok) ==
    IF ok THEN Append(list, f) ELSE list

\* Add of a filter whose name or url exists: the error is returned at once.
AddDuplicate(name, url) ==
    /\ CallStart
    /\ AddCollides(Proxylist, [ZeroFilter EXCEPT !.Name = name, !.URL = url])
    /\ call' = [NoCall EXCEPT !.op = "Add", !.name = name, !.url = url]
    /\ ret' = [NoRet EXCEPT !.err = TRUE]
    /\ UNCHANGED <<Proxylist, filtersUpdated, interval, files, now, confLock, pc,
                   uf, idx, events, cpc, nf,
                   fetched>>

\* Add up to the call of downloadFilter: the lock is taken and the id assigned.
AddBegin(name, url) ==
    /\ CallStart
    /\ ~AddCollides(Proxylist, [ZeroFilter EXCEPT !.Name = name, !.URL = url])
    /\ confLock' = "caller"
    /\ nf' = [ZeroFilter EXCEPT !.Name = name, !.URL = url,
                                !.ID = nextFilterID, !.Enabled = TRUE]
    /\ cpc' = "adding"
    /\ call' = NoCall
    /\ ret' = NoRet
    /\ UNCHANGED <<Proxylist, filtersUpdated, interval, files, now, pc, uf, idx,
                   events,
                   fetched>>

\* Add from the return of downloadFilter to its own return.
AddFinish(o) ==
    /\ Running
    /\ cpc = "adding"
    /\ files' = downloadedFiles(nf, o)
    /\ Proxylist' = AddResult(Proxylist, downloadedFilter(nf, o.body), o.ok)
    /\ call' = [NoCall EXCEPT !.op = "Add", !.name = nf.Name, !.url = nf.URL]
    /\ ret' = [NoRet EXCEPT !.err = ~o.ok, !.body = o.body]
    /\ confLock' = "free"
    /\ cpc' = "idle"
    /\ nf' = ZeroFilter
    /\ UNCHANGED <<filtersUpdated, interval, now, pc, uf, idx, events, calls,
                   fetched>>

\* ------------------------------------------------------------- Delete
\* The filters Delete keeps.
DeleteKeep(list, url) == SelectSeq(list, LAMBDA f : f.URL # url)

\* What found points to after Delete's loop.  found = &f takes the address
\* of the loop variable: where the loop has one variable for all iterations
\* (Go before 1.22) it holds the last filter of the list after the loop; where
\* each iteration has its own, it holds the matching filter.
DeleteFound(list, url, perIteration) ==
    IF perIteration
    THEN list[CHOOSE i \in 1..Len(list) :
                  list[i].URL = url /\ \A j \in (i + 1)..Len(list) : list[j].URL # url]
    ELSE list[Len(list)]

Delete(url, perIteration) ==
    /\ CallStart
    /\ call' = [NoCall EXCEPT !.op = "Delete", !.url = url]
    /\ IF \E i \in 1..Len(Proxylist) : Proxylist[i].URL = url
       THEN LET found == DeleteFound(Proxylist, url, perIteration) IN
            /\ Proxylist' = DeleteKeep(Proxylist, url)
            /\ ret' = [NoRet EXCEPT !.isNil = FALSE,
                                    !.found = [found EXCEPT !.Path = filterPath(found)]]
       ELSE /\ Proxylist' = Proxylist
            /\ ret' = NoRet
    /\ UNCHANGED <<filtersUpdated, interval, files, now, confLock, pc, uf, idx,
                   events, cpc, nf,
                   fetched>>

\* ------------------------------------------------------------- Modify
\* Index of the first filter with this url, 0 when there is none.
FirstByURL(list, url) ==
    IF \E i \in 1..Len(list) : list[i].URL = url
    THEN CHOOSE i \in 1..Len(list) :
             list[i].URL = url /\ \A j \in 1..(i - 1) : list[j].URL # url
    ELSE 0

\* The bits Modify's loop sets in st.
ModifyBits(list, url, enabled, newURL) ==
    LET i == FirstByURL(list, url) IN
    IF i = 0
    THEN 0
    ELSE (IF list[i].Enabled # enabled THEN StatusChangedEnabled ELSE 0)
         + (IF list[i].URL # newURL THEN StatusChangedURL ELSE 0)

\* The list after Modify's loop: the loop assigns to f, the range variable,
\* which is a copy of the element, so that no element of the list changes.
ModifyList(list, url, enabled, name, newURL) ==
    LET i == FirstByURL(list, url)
        f == IF i = 0 THEN ZeroFilter
             ELSE [list[i] EXCEPT !.Name = name, !.Enabled = enabled, !.URL = newURL]
    IN  list

Modify(url, enabled, name, newURL) ==
    /\ CallStart
    /\ call' = [op |-> "Modify", url |-> url, enabled |-> enabled, name |-> name,
                newURL |-> newURL]
    /\ Proxylist' = ModifyList(Proxylist, url, enabled, name, newURL)
    /\ LET st == ModifyBits(Proxylist, url, enabled, newURL) IN
       ret' = [NoRet EXCEPT !.status = IF st = 0 THEN StatusNotFound ELSE st]
    /\ UNCHANGED <<filtersUpdated, interval, files, now, confLock, pc, uf, idx,
                   events, cpc, nf,
                   fetched>>

\* ------------------------------------------------------------- updateFilters
\* getNextToUpdate: index of the first enabled filter that is due, 0 for nil.
getNextToUpdate ==
    IF \E i \in 1..Len(Proxylist) :
           Proxylist[i].Enabled /\ Proxylist[i].nextUpdate <= now
    THEN CHOOSE i \in 1..Len(Proxylist) :
             /\ Proxylist[i].Enabled /\ Proxylist[i].nextUpdate <= now
             /\ \A j \in 1..(i - 1) :
                    ~(Proxylist[j].Enabled /\ Proxylist[j].nextUpdate <= now)
    ELSE 0

\* The time getNextToUpdate writes into the filter it returns.
claimedNextUpdate == now + IntervalDuration

SchedClaim_KeepsLock ==
    /\ pc = "scan"
    /\ confLock = "free"
    /\ getNextToUpdate # 0
    /\ LET i == getNextToUpdate IN
       /\ Proxylist' = [Proxylist EXCEPT ![i].nextUpdate = claimedNextUpdate]
       /\ uf' = Proxylist'[i]
    /\ confLock' = "sched"
    /\ pc' = "assign"
    /\ NoReturn
    /\ UNCHANGED <<filtersUpdated, interval, files, now, idx, events,
                   cpc, nf,
                   fetched>>

\* Lines 320-323 when getNextToUpdate returns a filter.
SchedClaim ==
    /\ pc = "scan"
    /\ confLock = "free"
    /\ getNextToUpdate # 0
    /\ LET i == getNextToUpdate IN
       /\ Proxylist' = [Proxylist EXCEPT ![i].nextUpdate = claimedNextUpdate]
       /\ uf' = Proxylist'[i]
    /\ pc' = "assign"
    /\ NoReturn
    /\ UNCHANGED <<filtersUpdated, interval, files, now, confLock, idx, events,
                   cpc, nf,
                   fetched>>

\* Lines 320-322 when getNextToUpdate returns nil: uf := *f dereferences the
\* nil pointer before f is compared with nil, and the goroutine panics with
\* the lock held.
SchedNilDeref ==
    /\ pc = "scan"
    /\ confLock = "free"
    /\ getNextToUpdate = 0
    /\ confLock' = "sched"
    /\ pc' = "panicked"
    /\ NoReturn
    /\ UNCHANGED <<Proxylist, filtersUpdated, interval, files, now, uf, idx,
                   events, cpc, nf,
                   fetched>>

\* Line 332.
SchedAssignID ==
    /\ pc = "assign"
    /\ uf' = [uf EXCEPT !.ID = nextFilterID]
    /\ pc' = "download"
    /\ NoReturn
    /\ UNCHANGED <<Proxylist, filtersUpdated, interval, files, now, confLock, idx,
                   events, cpc, nf,
                   fetched>>

\* Lines 333-336.
SchedDownload(o) ==
    /\ pc = "download"
    /\ files' = downloadedFiles(uf, o)
    /\ fetched' = IF o.ok THEN [fetched EXCEPT ![uf.URL] = o.body] ELSE fetched
    /\ IF o.ok
       THEN uf' = downloadedFilter(uf, o.body) /\ pc' = "merge"
       ELSE uf' = ZeroFilter /\ pc' = "scan"
    /\ NoReturn
    /\ UNCHANGED <<Proxylist, filtersUpdated, interval, now, confLock, idx, events,
                   cpc, nf>>

modifyUpdated_AlwaysFlags(list, u) ==
    LET i == FirstByURL(list, u.URL) IN
    IF i = 0
    THEN [list |-> list, updated |-> TRUE]
    ELSE [list |-> [list EXCEPT ![i].newID = u.ID,
                                ![i].RuleCount = u.RuleCount,
                                ![i].LastUpdated = u.LastUpdated],
          updated |-> TRUE]

modifyUpdated_NoFlag(list, u) ==
    LET i == FirstByURL(list, u.URL) IN
    IF i = 0
    THEN [list |-> list, updated |-> filtersUpdated]
    ELSE [list |-> [list EXCEPT ![i].newID = u.ID,
                                ![i].RuleCount = u.RuleCount,
                                ![i].LastUpdated = u.LastUpdated],
          updated |-> filtersUpdated]

\* modifyUpdated: the list and the flag after the properties of u are merged.
modifyUpdated(list, u) ==
    LET i == FirstByURL(list, u.URL) IN
    IF i = 0
    THEN [list |-> list, updated |-> filtersUpdated]
    ELSE [list |-> [list EXCEPT ![i].newID = u.ID,
                                ![i].RuleCount = u.RuleCount,
                                ![i].LastUpdated = u.LastUpdated],
          updated |-> TRUE]

\* Lines 338-340.
SchedMerge ==
    /\ pc = "merge"
    /\ confLock = "free"
    /\ LET m == modifyUpdated(Proxylist, uf) IN
       /\ Proxylist' = m.list
       /\ filtersUpdated' = m.updated
    /\ uf' = ZeroFilter
    /\ pc' = "scan"
    /\ NoReturn
    /\ UNCHANGED <<interval, files, now, confLock, idx, events, cpc, nf,
                   fetched>>

\* ------------------------------------------------------------- the program
Next ==
    \/ Tick
    \/ ListCall
    \/ \E name \in Names, url \in URLs : AddDuplicate(name, url)
    \/ \E name \in Names, url \in URLs : AddBegin(name, url)
    \/ \E o \in Outcomes : AddFinish(o)
    \/ \E url \in URLs, perIteration \in BOOLEAN : Delete(url, perIteration)
    \/ \E url \in URLs, enabled \in BOOLEAN, name \in Names, newURL \in URLs :
           Modify(url, enabled, name, newURL)
    \/ SchedClaim
    \/ SchedNilDeref
    \/ SchedAssignID
    \/ \E o \in Outcomes : SchedDownload(o)
    \/ SchedMerge

Spec == Init /\ [][Next]_vars

\* ------------------------------------------------------------- applyUpdate
\* The filter has a new file to be renamed (line 394).
HasNewFile(f) == f.newID # 0 /\ f.newID # f.ID

\* os.Rename(from, to) can succeed only when from exists.
CanRename(from) == files[from] # NoFile

\* The directory after os.Rename(from, to) succeeded.
renamedFiles(from, to) == [files EXCEPT ![to] = files[from], ![from] = NoFile]

renamedFilter_ActivatesNewID(f, ok) ==
    IF ok THEN [f EXCEPT !.ID = f.newID, !.newID = 0] ELSE [f EXCEPT !.newID = 0]

renamedFilter_KeepsFailed(f, ok) == IF ok THEN [f EXCEPT !.newID = 0] ELSE f

\* Line 401: what the loop does to a filter whose file it tried to rename.
renamedFilter(f, ok) == [f EXCEPT !.newID = 0]

\* NotifyUsers delivers an event to one handler.
NotifyEvent(flag, user) == [kind |-> "notify", flag |-> flag, arg |-> user, ok |-> TRUE]

\* os.Rename was called for the filter at index i; ok: it returned no error.
RenameEvent(i, ok) == [kind |-> "rename", flag |-> EventBeforeUpdate, arg |-> i, ok |-> ok]

\* applyUpdate is called on the goroutine of updateFilters, between two of
\* its iterations.
ApplyUpdateCall ==
    /\ pc = "scan"
    /\ pc' = "apply"
    /\ NoReturn
    /\ UNCHANGED <<Proxylist, filtersUpdated, interval, files, now, confLock, uf,
                   idx, events, cpc, nf,
                   fetched>>

ApplyNoUpdates_Notifies ==
    /\ pc = "apply"
    /\ ~filtersUpdated
    /\ pc' = "notifyBefore"
    /\ idx' = 1
    /\ NoReturn
    /\ UNCHANGED <<Proxylist, filtersUpdated, interval, files, now, confLock, uf,
                   events, cpc, nf,
                   fetched>>

\* Lines 380-383.
ApplyNoUpdates ==
    /\ pc = "apply"
    /\ ~filtersUpdated
    /\ pc' = "scan"
    /\ NoReturn
    /\ UNCHANGED <<Proxylist, filtersUpdated, interval, files, now, confLock, uf,
                   idx, events, cpc, nf,
                   fetched>>

\* Lines 384-386, up to the first handler.
ApplyStart ==
    /\ pc = "apply"
    /\ filtersUpdated
    /\ filtersUpdated' = FALSE
    /\ pc' = "notifyBefore"
    /\ idx' = 1
    /\ NoReturn
    /\ UNCHANGED <<Proxylist, interval, files, now, confLock, uf, events, cpc, nf,
                   fetched>>

\* NotifyUsers: one iteration of its loop.
NotifyUser ==
    /\ pc \in {"notifyBefore", "notifyAfter"}
    /\ idx <= NumUsers
    /\ events' = Append(events,
                        NotifyEvent(IF pc = "notifyBefore" THEN EventBeforeUpdate
                                    ELSE EventAfterUpdate, idx))
    /\ idx' = idx + 1
    /\ NoReturn
    /\ UNCHANGED <<Proxylist, filtersUpdated, interval, files, now, confLock, pc,
                   uf, cpc, nf,
                   fetched>>

ApplyLock_Early ==
    /\ pc = "notifyBefore"
    /\ confLock = "free"
    /\ confLock' = "sched"
    /\ pc' = "rename"
    /\ idx' = 1
    /\ NoReturn
    /\ UNCHANGED <<Proxylist, filtersUpdated, interval, files, now, uf, events,
                   cpc, nf,
                   fetched>>

\* Line 390: NotifyUsers(EventBeforeUpdate) has returned, the lock is taken.
ApplyLock ==
    /\ pc = "notifyBefore"
    /\ idx > NumUsers
    /\ confLock = "free"
    /\ confLock' = "sched"
    /\ pc' = "rename"
    /\ idx' = 1
    /\ NoReturn
    /\ UNCHANGED <<Proxylist, filtersUpdated, interval, files, now, uf, events,
                   cpc, nf,
                   fetched>>

\* Lines 391-404: one iteration of the loop, for a filter with a new file.
ApplyRename(ok) ==
    /\ pc = "rename"
    /\ idx <= Len(Proxylist)
    /\ HasNewFile(Proxylist[idx])
    /\ LET f == Proxylist[idx]
           name == filterPath(f)
           newName == filterPath([ZeroFilter EXCEPT !.ID = f.newID])
       IN  /\ ok => CanRename(newName)
           /\ files' = IF ok THEN renamedFiles(newName, name) ELSE files
           /\ Proxylist' = [Proxylist EXCEPT ![idx] = renamedFilter(f, ok)]
    /\ events' = Append(events, RenameEvent(idx, ok))
    /\ idx' = idx + 1
    /\ NoReturn
    /\ UNCHANGED <<filtersUpdated, interval, now, confLock, pc, uf, cpc, nf,
                   fetched>>

\* Lines 391-404: one iteration of the loop, for a filter without a new file.
ApplySkip ==
    /\ pc = "rename"
    /\ idx <= Len(Proxylist)
    /\ ~HasNewFile(Proxylist[idx])
    /\ idx' = idx + 1
    /\ NoReturn
    /\ UNCHANGED <<Proxylist, filtersUpdated, interval, files, now, confLock, pc,
                   uf, events, cpc, nf,
                   fetched>>

\* Line 405, up to the first handler of NotifyUsers(EventAfterUpdate).
ApplyUnlock ==
    /\ pc = "rename"
    /\ idx > Len(Proxylist)
    /\ confLock' = "free"
    /\ pc' = "notifyAfter"
    /\ idx' = 1
    /\ NoReturn
    /\ UNCHANGED <<Proxylist, filtersUpdated, interval, files, now, uf, events,
                   cpc, nf,
                   fetched>>

\* applyUpdate returns after NotifyUsers(EventAfterUpdate).
ApplyReturn ==
    /\ pc = "notifyAfter"
    /\ idx > NumUsers
    /\ pc' = "scan"
    /\ idx' = 0
    /\ events' = <<>>
    /\ NoReturn
    /\ UNCHANGED <<Proxylist, filtersUpdated, interval, files, now, confLock, uf,
                   cpc, nf,
                   fetched>>

\* The program, and applyUpdate called on its own.
NextApplier ==
    \/ Next
    \/ ApplyUpdateCall
    \/ ApplyNoUpdates
    \/ ApplyStart
    \/ NotifyUser
    \/ ApplyLock
    \/ \E ok \in BOOLEAN : ApplyRename(ok)
    \/ ApplySkip
    \/ ApplyUnlock
    \/ ApplyReturn

SpecApplier == Init /\ [][NextApplier]_vars

\* ------------------------------------------------------------- claims
\* The file a filter is served from: the one its active id names.
Served(fs, f) == fs[filterPath(f)]

\* The step is a scheduled refresh storing a downloaded body.
RefreshStores == pc = "download" /\ pc' = "merge"

\* The step belongs to the loop of applyUpdate that renames files.
SwapStep == pc = "rename"

\* C1: from the moment a scheduled refresh stores new content until the next
\* run of applyUpdate, no filter's served file changes: neither the step that
\* stores the download, nor any later step taken while a filter has a
\* downloaded revision waiting, changes the bytes of a file named by an
\* active id.
C1_ServedUnchangedUntilSwap ==
    [][~SwapStep =>
          \A i \in 1..Len(Proxylist) :
              (RefreshStores \/ Proxylist[i].newID # 0)
                  => Served(files', Proxylist[i]) = Served(files, Proxylist[i])]_vars

\* C4: a scan that finds no enabled filter due is followed by applyUpdate,
\* and the background task does not abort.
C4_IdleScanAppliesAndGoesOn ==
    [][(pc = "scan" /\ pc' # "scan" /\ getNextToUpdate = 0)
           => (pc' = "apply" /\ pc' # "panicked")]_vars

\* The step is a successful os.Rename for the filter at index idx.
RenameSucceeds ==
    /\ pc = "rename"
    /\ Len(events') = Len(events) + 1
    /\ events'[Len(events')] = RenameEvent(idx, TRUE)

\* C2: when applyUpdate renames the new file of a filter and the rename
\* succeeds, the file named by the filter's active id holds exactly the
\* bytes of the filter's most recent successful scheduled download.
C2_SwapServesLastDownload ==
    [][RenameSucceeds =>
          Served(files', Proxylist'[idx]) = fetched[Proxylist[idx].URL]]_vars

\* Positions in the log of the current applyUpdate run.
RenamePositions == {k \in 1..Len(events) : events[k].kind = "rename"}
NotifyPositions(flag, user) ==
    {k \in 1..Len(events) : events[k] = NotifyEvent(flag, user)}

\* C3: in a run of applyUpdate every handler receives EventBeforeUpdate before
\* the first rename and EventAfterUpdate only after the last rename attempt,
\* and when the run is about to return every handler has received
\* EventAfterUpdate, whether or not a rename failed.
C3_NotifyAroundRenames ==
    /\ \A k \in RenamePositions : \A u \in 1..NumUsers :
           \E j \in NotifyPositions(EventBeforeUpdate, u) : j < k
    /\ \A u \in 1..NumUsers : \A j \in NotifyPositions(EventAfterUpdate, u) :
           /\ pc = "notifyAfter"
           /\ \A k \in RenamePositions : k < j
           /\ \A i \in 1..Len(Proxylist) : ~HasNewFile(Proxylist[i])
    /\ (pc = "notifyAfter" /\ idx > NumUsers)
           => \A u \in 1..NumUsers : NotifyPositions(EventAfterUpdate, u) # {}

\* A run of applyUpdate in which a rename failed is about to return.
C3_Witness ==
    /\ pc = "notifyAfter"
    /\ idx > NumUsers
    /\ \E k \in RenamePositions : ~events[k].ok
    /\ \E k \in RenamePositions : events[k].ok

\* The lines of body that are not empty and start with neither # nor !,
\* counted by their first bytes.
SignificantLines(body) ==
    Cardinality({i \in 1..Len(body) :
                    /\ i = 1 \/ body[i - 1] = "\n"
                    /\ body[i] \notin {"\n", "#", "!"}})

\* C5: after an Add that collided with no filter and whose download
\* succeeded, List holds exactly one filter with that name and url, and its
\* RuleCount is the number of significant lines of the downloaded body.
C5_AddThenList ==
    (call.op = "Add" /\ ~ret.err) =>
        LET found == {i \in 1..Len(List) :
                         List[i].Name = call.name /\ List[i].URL = call.url}
        IN  /\ Cardinality(found) = 1
            /\ \A i \in found : List[i].RuleCount = SignificantLines(ret.body)

\* An Add of a second filter succeeded with a body of two rules and comments.
C5_Witness ==
    /\ call.op = "Add"
    /\ ~ret.err
    /\ Len(Proxylist) = 2
    /\ ret.body = Body2Rules
    /\ SignificantLines(ret.body) = 2

\* Some filter of list has this name or this url.
SharesNameOrURL(list, name, url) ==
    \E i \in 1..Len(list) : list[i].Name = name \/ list[i].URL = url

\* C6: an Add whose name or url is that of an existing filter, or whose
\* download fails, returns an error, and the list of filters is the same
\* from the call of Add to its return.
C6_FailedAddChangesNothing ==
    [][/\ (call'.op = "Add" /\ SharesNameOrURL(Proxylist, call'.name, call'.url))
           => ret'.err
       /\ (cpc = "adding" /\ cpc' = "idle" /\ ret'.body = <<>>) => ret'.err
       /\ (call'.op = "Add" /\ ret'.err) => Proxylist' = Proxylist
       /\ (cpc = "adding" /\ cpc' = "adding") => Proxylist' = Proxylist]_vars

\* An Add that collided with nothing has returned the error of its download.
C6_Witness ==
    /\ call.op = "Add"
    /\ ret.err
    /\ ~SharesNameOrURL(Proxylist, call.name, call.url)
    /\ Len(Proxylist) >= 1

\* list without its element at index i.
WithoutIndex(list, i) == SubSeq(list, 1, i - 1) \o SubSeq(list, i + 1, Len(list))

\* C7: Delete of a url no filter has returns nil and changes nothing; Delete
\* of a url a filter has removes that filter alone and returns it, with the
\* path of its active id.
C7_DeleteReturnsRemoved ==
    [][call'.op = "Delete" =>
          LET i == FirstByURL(Proxylist, call'.url) IN
          IF i = 0
          THEN ret'.isNil /\ Proxylist' = Proxylist
          ELSE /\ ~ret'.isNil
               /\ Proxylist' = WithoutIndex(Proxylist, i)
               /\ ret'.found = [Proxylist[i] EXCEPT !.Path = filterPath(Proxylist[i])]]_vars

\* C8: after Modify(url, enabled, name, newURL) on the url of a filter, the
\* stored filter has enabled, name and newURL, and nothing else changed.
C8_ModifyStores ==
    [][(call'.op = "Modify" /\ FirstByURL(Proxylist, call'.url) # 0) =>
          LET i == FirstByURL(Proxylist, call'.url) IN
          Proxylist' = [Proxylist EXCEPT ![i].Enabled = call'.enabled,
                                         ![i].Name = call'.name,
                                         ![i].URL = call'.newURL]]_vars

\* Bit b (a power of two) is set in status n.
HasBit(n, b) == (n \div b) % 2 = 1

\* C9: Modify returns StatusNotFound exactly when no filter has the url;
\* for a filter that has it, StatusChangedEnabled is set exactly when enabled
\* differs from the stored value and StatusChangedURL exactly when newURL
\* differs from the stored url.
C9_ModifyStatus ==
    [][call'.op = "Modify" =>
          LET i == FirstByURL(Proxylist, call'.url) IN
          /\ (ret'.status = StatusNotFound) <=> (i = 0)
          /\ i # 0 =>
                /\ HasBit(ret'.status, StatusChangedEnabled)
                       <=> (Proxylist[i].Enabled # call'.enabled)
                /\ HasBit(ret'.status, StatusChangedURL)
                       <=> (Proxylist[i].URL # call'.newURL)]_vars

\* C10: no two filters of the list share a name and no two share a url.
C10_NamesAndURLsUnique ==
    \A i, j \in 1..Len(Proxylist) :
        i # j => /\ Proxylist[i].Name # Proxylist[j].Name
                 /\ Proxylist[i].URL # Proxylist[j].URL

\* A filter was added by Add, and Modify has just been called for the other
\* filter with the name and the url of the added one.
C10_Witness ==
    /\ Len(Proxylist) = 2
    /\ Proxylist[2].ID >= StartTime
    /\ call.op = "Modify"
    /\ call.url = Proxylist[1].URL
    /\ call.newURL = Proxylist[2].URL
    /\ call.name = Proxylist[2].Name
    /\ ret.status # StatusNotFound

\* C11: the list List returns has one entry for each filter of Proxylist, in
\* the order of Proxylist and nothing else: it is as long as Proxylist, and
\* its entry i is filter i with Path set to the path of the filter's id.
C11_ListIsSnapshot ==
    call.op = "List" =>
        /\ Len(List) = Len(Proxylist)
        /\ \A i \in 1..Len(Proxylist) :
               List[i] = [Proxylist[i] EXCEPT !.Path = filterPath(Proxylist[i])]

\* The scheduler is inside applyUpdate, past the reset of filtersUpdated.
InsideApplyUpdate == pc \in {"notifyBefore", "rename", "notifyAfter"}

\* The step is one of the goroutine of updateFilters.
SchedulerStep == pc' # pc \/ idx' # idx

\* C12: filtersUpdated is set only by a merge of a scheduled download and
\* reset only when applyUpdate starts a swap, so that it is false exactly when
\* no filter got a new revision since the last swap; and a call of
\* applyUpdate that finds it false returns without an event delivered, a file
\* renamed or a filter changed.
C12_NothingPendingNoSwap ==
    [][/\ (~filtersUpdated /\ filtersUpdated') => (pc = "merge" /\ pc' = "scan")
       /\ (filtersUpdated /\ ~filtersUpdated') => (pc = "apply" /\ pc' = "notifyBefore")
       /\ (pc = "merge" /\ pc' = "scan" /\ Proxylist' # Proxylist) => filtersUpdated'
       /\ (pc = "apply" /\ ~filtersUpdated /\ SchedulerStep) =>
              /\ pc' = "scan"
              /\ events' = events
              /\ files' = files
              /\ Proxylist' = Proxylist
              /\ filtersUpdated' = filtersUpdated]_vars

\* applyUpdate was called with nothing to swap, after an earlier swap put the
\* last download of a filter in place.
C12_Witness ==
    /\ pc = "apply"
    /\ ~filtersUpdated
    /\ \E i \in 1..Len(Proxylist) :
           /\ fetched[Proxylist[i].URL] # NoFile
           /\ Proxylist[i].newID = 0
           /\ Served(files, Proxylist[i]) = fetched[Proxylist[i].URL]

\* C13 as stated: in no state does a process hold confLock while it downloads
\* a filter, writes its file or renames a file: not Add between Lock and its
\* deferred Unlock, not updateFilters, not applyUpdate.
C13_NoIOUnderLock ==
    /\ ~(cpc = "adding" /\ confLock = "caller")
    /\ pc \in {"download", "rename"} => confLock # "sched"

\* C13: updateFilters holds confLock neither while it assigns the new id nor
\* while it downloads and writes a scheduled refresh nor before the merge;
\* confLock is held across input and output by Add alone among the callers,
\* for the whole of its download, and by applyUpdate alone in the scheduler,
\* for its renames (the lock of the panicked goroutine is that of C4).
C13_OnlyAddAndRenameLockIO ==
    /\ pc \in {"assign", "download", "merge"} => confLock # "sched"
    /\ confLock = "caller" <=> cpc = "adding"
    /\ confLock = "sched" => pc \in {"rename", "panicked"}

\* updateFilters downloads a refresh without the lock while Add downloads its
\* new filter with the lock held.
C13_Witness ==
    /\ pc = "download"
    /\ cpc = "adding"
    /\ confLock = "caller"

\* C14: a filter claimed by getNextToUpdate gets a nextUpdate later than the
\* time of the claim, whatever UpdateIntervalHours is, so that it is not
\* claimed again before the interval has passed; and a scheduled download
\* that fails leaves every filter (ID, newID, RuleCount, LastUpdated) and the
\* flag filtersUpdated as they were.
C14_FailedRefreshWaitsInterval ==
    [][/\ (pc = "scan" /\ pc' = "assign") =>
              /\ uf'.nextUpdate > now
              /\ getNextToUpdate' # getNextToUpdate
       /\ (pc = "download" /\ pc' = "scan") =>
              /\ Proxylist' = Proxylist
              /\ filtersUpdated' = filtersUpdated]_vars

\* The step is the merge of a scheduled download by modifyUpdated.
MergeStep == pc = "merge" /\ pc' = "scan"

\* The filter claimed for the download held by uf is no longer in the list:
\* it alone has the URL of uf together with the nextUpdate of the claim (a
\* filter added since has the zero nextUpdate).
ClaimedFilterDeleted ==
    ~\E i \in 1..Len(Proxylist) :
         /\ Proxylist[i].URL = uf.URL
         /\ Proxylist[i].nextUpdate = uf.nextUpdate

\* C15 as stated: whenever the claimed filter was deleted between the claim
\* and the merge, the merge changes no filter, does not set filtersUpdated and
\* brings no filter back.
C15_MergeAfterDeleteDiscards ==
    [][(MergeStep /\ ClaimedFilterDeleted) =>
           /\ Proxylist' = Proxylist
           /\ filtersUpdated' = filtersUpdated]_vars

\* C15: when the claimed filter was deleted between the claim and the merge
\* and no filter with the same URL was added since, the merge finds no filter
\* with the URL and discards the download: it changes no filter (newID,
\* RuleCount, LastUpdated), does not set filtersUpdated and brings no filter
\* back.
C15_MergeWithoutURLDiscards ==
    [][(MergeStep /\ ClaimedFilterDeleted /\ FirstByURL(Proxylist, uf.URL) = 0) =>
           /\ Proxylist' = Proxylist
           /\ filtersUpdated' = filtersUpdated]_vars

\* A download is about to be merged, its filter was deleted, and another
\* filter is still in the list.
C15_Witness ==
    /\ pc = "merge"
    /\ ClaimedFilterDeleted
    /\ FirstByURL(Proxylist, uf.URL) = 0
    /\ Proxylist # <<>>
    /\ ~filtersUpdated

\* C16 as stated: when the rename of the new file of a filter succeeds, the
\* filter's ID becomes its former newID and its newID becomes zero.
C16_SwapActivatesNewID ==
    [][RenameSucceeds =>
           /\ Proxylist'[idx].ID = Proxylist[idx].newID
           /\ Proxylist'[idx].newID = 0]_vars

\* C16: when the rename of the new file of a filter succeeds, the filter keeps
\* its ID, the file named by that ID holds the bytes the file named by newID
\* held, the file named by newID is gone, and newID becomes zero.
C16_SwapKeepsIDTakesFile ==
    [][RenameSucceeds =>
           /\ Proxylist'[idx].ID = Proxylist[idx].ID
           /\ Proxylist'[idx].newID = 0
           /\ Served(files', Proxylist[idx]) =
                  files[filterPath([ZeroFilter EXCEPT !.ID = Proxylist[idx].newID])]
           /\ files'[filterPath([ZeroFilter EXCEPT !.ID = Proxylist[idx].newID])] = NoFile]_vars

\* The file of a filter has just been renamed: the filter has its old ID, no
\* newID, and a file under the old ID.
C16_Witness ==
    /\ pc = "rename"
    /\ idx > 1
    /\ events # <<>>
    /\ events[Len(events)] = RenameEvent(idx - 1, TRUE)
    /\ Proxylist[idx - 1].newID = 0
    /\ Served(files, Proxylist[idx - 1]) # NoFile

\* The step is an iteration of the loop of applyUpdate whose os.Rename fails.
RenameFails ==
    /\ pc = "rename"
    /\ Len(events') = Len(events) + 1
    /\ events'[Len(events')] = RenameEvent(idx, FALSE)

\* C17: when os.Rename fails for a filter in applyUpdate, the filter keeps its
\* ID and the file named by it keeps its bytes (no file changes); the filter
\* no longer has a new file to rename, and gets one again only by the merge
\* of a later successful download; the loop goes on with the next filter,
\* the other filters are as they were, and it ends only when no filter of the
\* list has a new file left, so that every other new file of the batch is
\* renamed too.
C17_FailedRenameSkipsOne ==
    [][/\ RenameFails =>
              /\ Proxylist'[idx].ID = Proxylist[idx].ID
              /\ files' = files
              /\ Served(files', Proxylist'[idx]) = Served(files, Proxylist[idx])
              /\ Proxylist'[idx].newID = 0
              /\ ~HasNewFile(Proxylist'[idx])
              /\ pc' = "rename"
              /\ idx' = idx + 1
              /\ Len(Proxylist') = Len(Proxylist)
              /\ \A j \in 1..Len(Proxylist) : j # idx => Proxylist'[j] = Proxylist[j]
       /\ (/\ Len(Proxylist') = Len(Proxylist)
           /\ \E j \in 1..Len(Proxylist) :
                  Proxylist[j].newID = 0 /\ Proxylist'[j].newID # 0) => MergeStep
       /\ (pc = "rename" /\ pc' = "notifyAfter") =>
              \A j \in 1..Len(Proxylist) : ~HasNewFile(Proxylist[j])]_vars

\* In one run of applyUpdate the rename of a filter failed and the rename of
\* a later filter succeeded; the first has no new file any more.
C17_Witness ==
    /\ pc = "rename"
    /\ \E k \in RenamePositions : \E m \in RenamePositions :
           /\ k < m
           /\ ~events[k].ok
           /\ events[m].ok
           /\ Proxylist[events[k].arg].newID = 0

\* C18: no two filters of the list have the same ID, and a newID that is not
\* zero is the ID of no filter of the list (its own included) and the newID
\* of no other filter, also when ids are taken in the same second.
C18_IDsUnique ==
    \A i \in 1..Len(Proxylist) : \A j \in 1..Len(Proxylist) :
        /\ i # j => Proxylist[i].ID # Proxylist[j].ID
        /\ Proxylist[i].newID # 0 => Proxylist[i].newID # Proxylist[j].ID
        /\ (i # j /\ Proxylist[i].newID # 0) => Proxylist[i].newID # Proxylist[j].newID

\* C19: the handlers of Users are called while updateFilters does not hold
\* confLock, and whoever holds confLock is on its way to the Unlock: a caller
\* inside Add, or the scheduler inside the loop of applyUpdate; so a handler
\* that calls List, Add, Delete or Modify gets the lock and returns, and no
\* state is left with the lock held for good.
C19_LockAlwaysReleased ==
    /\ pc \in {"notifyBefore", "notifyAfter"} => confLock # "sched"
    /\ confLock = "caller" => cpc = "adding"
    /\ confLock = "sched" => pc = "rename"

\* Some filter of the list has a new file waiting to be renamed.
SomeNewFile == \E i \in 1..Len(Proxylist) : HasNewFile(Proxylist[i])

\* C20: whenever updateFilters is not inside applyUpdate past the reset of the
\* flag, a filter with a newID that is neither zero nor its ID implies that
\* filtersUpdated is set; so the next call of applyUpdate does not return at
\* its first test and renames the file of every such filter.
C20_NewFileImpliesFlag ==
    (~InsideApplyUpdate /\ SomeNewFile) => filtersUpdated

\* applyUpdate is called with the flag set and a new file to rename, after a
\* caller's operation came in between.
C20_Witness ==
    /\ pc = "apply"
    /\ SomeNewFile
    /\ filtersUpdated
    /\ calls > 0

====
